---- MODULE Spec2Model ----
(***************************************************************************)
(* A model of pycmt3d's data_container.py: the TraceWindow entity, the     *)
(* window-file parsers, the sac and asdf waveform loaders and the          *)
(* DataContainer that orchestrates them.                                   *)
(*                                                                         *)
(* Conventions.                                                            *)
(*  - A Python exception is the name of its class in an "err" field; ""    *)
(*    means that nothing was raised.                                       *)
(*  - None is the empty tuple and any other optional value v is <<v>>.     *)
(*  - A text line is the sequence of its whitespace-separated tokens.  A   *)
(*    token is <<kind, n>>: <<"i", n>> is the integer literal n, <<"f", n>>*)
(*    the decimal literal n.5 and <<"w", n>> the n-th non-numeric word.    *)
(*  - A float is represented by twice its value, so that n.5 is the        *)
(*    integer 2n+1.                                                        *)
(***************************************************************************)
EXTENDS Integers, Sequences, FiniteSets, TLC

VARIABLES
  par_list,        \* DataContainer.par_list
  trwins,          \* DataContainer.trwins
  load_info,       \* DataContainer._load_info
  asdf_file_dict,  \* DataContainer._asdf_file_dict
  opened,          \* the files and archives opened by the last call, in order
  call,            \* the last call: its name and its arguments
  ret              \* what the last call returned or raised

vars == <<par_list, trwins, load_info, asdf_file_dict, opened, call, ret>>

None == <<>>
Some(v) == <<v>>

\* a local name: Body is what follows the assignment of v to it
With(v, Body(_)) == Body(v)

\* ------------------------------------------------------------- text tokens

I(n) == <<"i", n>>
F(n) == <<"f", n>>
W(n) == <<"w", n>>

\* int(line.strip()): the line must be one integer literal
IntOk(line) == Len(line) = 1 /\ line[1][1] = "i"
IntOf(line) == line[1][2]

\* float(token): integer and decimal literals convert, words do not
FloatOk(tok) == tok[1] \in {"i", "f"}
FloatOf(tok) == IF tok[1] = "i" THEN 2 * tok[2] ELSE 2 * tok[2] + 1

\* f.readline().strip().split(): a line of the file, "" at the end of file
ReadLine(lines, pos) == IF pos <= Len(lines) THEN lines[pos] ELSE <<>>

\* ------------------------------------------------------------- TraceWindow

\* TraceWindow._sanity_check; datalist is a dict in every call of this file
_sanity_check(self) ==
  IF Len(self.windows) > 0
  THEN IF Len(self.windows[1]) # 2 THEN "ValueError"
       ELSE IF Len(self.windows) # Len(self.init_weight) THEN "ValueError"
       ELSE ""
  ELSE ""

\* the parameters of TraceWindow.__init__
InitKeywords == {"datalist", "windows", "init_weight", "longitude", "latitude",
                 "event_latitude", "event_longitude", "tag", "source",
                 "path_dict"}

\* TraceWindow(**kw): a keyword that __init__ does not have is a TypeError;
\* a parameter that is not given takes its default
TraceWindow(kw) ==
  LET Arg(name, default) == IF name \in DOMAIN kw THEN kw[name] ELSE default
      self == [datalist |-> Arg("datalist", <<>>),
               windows |-> Arg("windows", <<>>),
               init_weight |-> Arg("init_weight", None),
               latitude |-> Arg("latitude", None),
               longitude |-> Arg("longitude", None),
               event_latitude |-> Arg("event_latitude", None),
               event_longitude |-> Arg("event_longitude", None),
               tag |-> Arg("tag", None), source |-> Arg("source", None),
               path_dict |-> Arg("path_dict", None)]
  IN IF ~(DOMAIN kw \subseteq InitKeywords) THEN [err |-> "TypeError", obj |-> <<>>]
     ELSE [err |-> _sanity_check(self), obj |-> self]

nwindows(self) == Len(self.windows)

\* ------------------------------------------------------ load_winfile_txt

\* ReadWindowRow with the optional third token never read
ReadWindowRow_WeightIgnored(content, initial_weight) ==
  IF Len(content) < 2 THEN [err |-> "IndexError", time |-> <<>>, weight |-> 0]
  ELSE IF ~FloatOk(content[1]) \/ ~FloatOk(content[2])
  THEN [err |-> "ValueError", time |-> <<>>, weight |-> 0]
  ELSE [err |-> "", time |-> <<FloatOf(content[1]), FloatOf(content[2])>>,
        weight |-> initial_weight]

\* one window row of load_winfile_txt (the body of the loop over iwin)
ReadWindowRow(content, initial_weight) ==
  IF Len(content) < 2 THEN [err |-> "IndexError", time |-> <<>>, weight |-> 0]
  ELSE IF ~FloatOk(content[1]) \/ ~FloatOk(content[2])
  THEN [err |-> "ValueError", time |-> <<>>, weight |-> 0]
  ELSE IF Len(content) = 3
  THEN IF FloatOk(content[3])
       THEN [err |-> "", time |-> <<FloatOf(content[1]), FloatOf(content[2])>>,
             weight |-> FloatOf(content[3])]
       ELSE [err |-> "ValueError", time |-> <<>>, weight |-> 0]
  ELSE [err |-> "", time |-> <<FloatOf(content[1]), FloatOf(content[2])>>,
        weight |-> initial_weight]

\* the loop over iwin: rows pos .. pos+n-1 of the file
RECURSIVE ReadWindows(_, _, _, _, _, _)
ReadWindows(lines, pos, n, win_time, win_weight, initial_weight) ==
  IF n <= 0 THEN [err |-> "", win_time |-> win_time, win_weight |-> win_weight]
  ELSE LET row == ReadWindowRow(ReadLine(lines, pos), initial_weight)
       IN IF row.err # ""
          THEN [err |-> row.err, win_time |-> <<>>, win_weight |-> <<>>]
          ELSE ReadWindows(lines, pos + 1, n - 1, Append(win_time, row.time),
                           Append(win_weight, row.weight), initial_weight)

\* the loop over idx: the groups that follow the header
RECURSIVE ReadTrwins(_, _, _, _, _)
ReadTrwins(lines, pos, n, acc, initial_weight) ==
  IF n <= 0 THEN [err |-> "", trwins |-> acc]
  ELSE LET obsd_path == ReadLine(lines, pos)
           synt_path == ReadLine(lines, pos + 1)
           path_dict == [obsd |-> obsd_path, synt |-> synt_path]
           count     == ReadLine(lines, pos + 2)
       IN IF ~IntOk(count) THEN [err |-> "ValueError", trwins |-> <<>>]
          ELSE IF IntOf(count) < 0 THEN [err |-> "ValueError", trwins |-> <<>>]
          ELSE LET wins == ReadWindows(lines, pos + 3, IntOf(count), <<>>, <<>>,
                                       initial_weight)
                   made == TraceWindow([windows |-> wins.win_time,
                                        init_weight |-> wins.win_weight,
                                        path_dict |-> path_dict])
               IN IF wins.err # "" THEN [err |-> wins.err, trwins |-> <<>>]
                  ELSE IF made.err # "" THEN [err |-> made.err, trwins |-> <<>>]
                  ELSE ReadTrwins(lines, pos + 3 + IntOf(count), n - 1,
                                  Append(acc, made.obj), initial_weight)

\* DataContainer.load_winfile_txt on the lines of an existing file
load_winfile_txt(lines, initial_weight) ==
  IF ~IntOk(ReadLine(lines, 1)) THEN [err |-> "ValueError", trwins |-> <<>>]
  ELSE IF IntOf(ReadLine(lines, 1)) = 0 THEN [err |-> "", trwins |-> <<>>]
  ELSE ReadTrwins(lines, 2, IntOf(ReadLine(lines, 1)), <<>>, initial_weight)

\* ------------------------------------------- line-format window files

MaxFileGroups == 2   \* most groups a generated window file declares
MaxRows == 3         \* most window rows a generated window file holds in all

\* the two values of the caller's initial_weight (0.5 and 1.0)
InitialWeights == {1, 2}

\* window rows of 0 to 4 tokens that differ at every position, a second
\* well-formed row, and a row whose end time is no number
Rows == { <<>>, <<I(1)>>, <<I(1), F(2)>>, <<I(1), F(2), I(3)>>,
          <<I(1), F(2), I(3), F(4)>>, <<F(0), I(2)>>, <<I(1), W(0)>> }

RECURSIVE SumTo(_, _)
SumTo(f, n) == IF n = 0 THEN 0 ELSE f[n] + SumTo(f, n - 1)

\* how many rows each of n groups declares
RowCounts(n) == { c \in [1..n -> 0..MaxRows] : SumTo(c, n) <= MaxRows }

\* the declared content of a window file: group i with its two path lines
\* and its rows, cut out of the flat row list by the counts
Declared(counts, flat) ==
  [i \in 1..Len(counts) |->
     [obsd |-> <<W(2 * i - 1)>>, synt |-> <<W(2 * i)>>,
      rows |-> SubSeq(flat, SumTo(counts, i - 1) + 1, SumTo(counts, i))]]

RECURSIVE GroupLines(_, _)
GroupLines(decl, i) ==
  IF i > Len(decl) THEN <<>>
  ELSE <<decl[i].obsd, decl[i].synt, <<I(Len(decl[i].rows))>>>>
       \o decl[i].rows \o GroupLines(decl, i + 1)

Defects == {"none", "header", "truncated"}

\* the lines of the file that declares decl; a defective file has a word for
\* its header count or lacks its last line
WriteTxt(decl, defect) ==
  LET lines == <<<<I(Len(decl))>>>> \o GroupLines(decl, 1)
  IN CASE defect = "header"    -> <<<<W(0)>>>> \o Tail(lines)
       [] defect = "truncated" -> SubSeq(lines, 1, Len(lines) - 1)
       [] OTHER                -> lines

Pending == [err |-> "pending"]

\* a container as DataContainer.__init__ leaves it
Constructed(pl) ==
  /\ par_list = pl
  /\ trwins = <<>>
  /\ load_info = <<>>
  /\ asdf_file_dict = None
  /\ opened = <<>>

NoParams == <<>>

InitTxt ==
  /\ Constructed(NoParams)
  /\ \E n \in 0..MaxFileGroups : \E counts \in RowCounts(n) :
       \E flat \in [1..SumTo(counts, n) -> Rows] :
         \E defect \in Defects : \E w \in InitialWeights :
           call = [op |-> "load_winfile_txt",
                   decl |-> Declared(counts, flat), defect |-> defect,
                   flexwin_file |-> WriteTxt(Declared(counts, flat), defect),
                   initial_weight |-> w]
  /\ ret = Pending

\* the static method DataContainer.load_winfile_txt called on the file
CallLoadWinfileTxt ==
  /\ ret = Pending
  /\ ret' = load_winfile_txt(call.flexwin_file, call.initial_weight)
  /\ opened' = <<"win.txt">>
  /\ UNCHANGED <<par_list, trwins, load_info, asdf_file_dict, call>>

NextTxt == CallLoadWinfileTxt

SpecTxt == InitTxt /\ [][NextTxt]_vars

\* a row of the line format: start end [weight], all floats
ValidRow(row) == Len(row) \in {2, 3} /\ \A k \in 1..Len(row) : FloatOk(row[k])
ValidDecl(decl) == \A i \in 1..Len(decl) : \A j \in 1..Len(decl[i].rows) :
                     ValidRow(decl[i].rows[j])

TxtParsed == call.op = "load_winfile_txt" /\ ret # Pending

RECURSIVE CountWindows(_, _)
CountWindows(groups, n) ==
  IF n = 0 THEN 0 ELSE nwindows(groups[n]) + CountWindows(groups, n - 1)

RECURSIVE CountRows(_, _)
CountRows(decl, n) ==
  IF n = 0 THEN 0 ELSE Len(decl[n].rows) + CountRows(decl, n - 1)

\* C3: every valid line-format file that declares N groups parses to exactly
\* those N groups in file order; group i holds its M_i declared windows in
\* file order, each weight is the row's third token when the row has one and
\* the caller's initial weight otherwise, so windows and weights agree in
\* number in every group and the total window count is the sum of the M_i.
C3_ValidTxtParsesAsDeclared ==
  (TxtParsed /\ call.defect = "none" /\ ValidDecl(call.decl)) =>
    /\ ret.err = ""
    /\ Len(ret.trwins) = Len(call.decl)
    /\ \A i \in 1..Len(call.decl) :
         LET g == ret.trwins[i]
             rows == call.decl[i].rows
         IN /\ g.path_dict = [obsd |-> call.decl[i].obsd, synt |-> call.decl[i].synt]
            /\ Len(g.windows) = Len(rows)
            /\ Len(g.init_weight) = Len(g.windows)
            /\ \A j \in 1..Len(rows) :
                 /\ g.windows[j] = <<FloatOf(rows[j][1]), FloatOf(rows[j][2])>>
                 /\ g.init_weight[j] = IF Len(rows[j]) = 3 THEN FloatOf(rows[j][3])
                                       ELSE call.initial_weight
    /\ CountWindows(ret.trwins, Len(ret.trwins)) = CountRows(call.decl, Len(call.decl))

\* a valid file of two groups was parsed; one group holds a row with a weight
\* followed by a row without one
C3_Witness ==
  /\ TxtParsed /\ call.defect = "none" /\ ValidDecl(call.decl)
  /\ Len(call.decl) = 2 /\ ret.err = ""
  /\ \E i \in 1..2 : /\ Len(call.decl[i].rows) = 2
                     /\ Len(call.decl[i].rows[1]) = 3
                     /\ Len(call.decl[i].rows[2]) = 2

\* C4: parsing fails whenever some window row of the file does not have
\* exactly 2 or 3 tokens.
C4_BadArityFails ==
  (/\ TxtParsed /\ call.defect = "none"
   /\ \E i \in 1..Len(call.decl) : \E j \in 1..Len(call.decl[i].rows) :
        Len(call.decl[i].rows[j]) \notin {2, 3})
  => ret.err # ""

\* ----------------------------------------------- the asdf helper functions
\* A string is the sequence of its characters.  An asdf archive is
\* [waveforms |-> the function from station names "NW_STA" to stations]; a
\* station is [tags |-> what get_waveform_tags() returns, streams |-> the
\* function from tag to its list of traces, attrs |-> the subset of
\* {"coordinates", "StationXML"} that dir(st) holds, coordinates, StationXML].

\* os.path.basename: what follows the last "/"
RECURSIVE basename(_)
basename(p) ==
  IF p = <<>> THEN <<>>
  ELSE IF p[Len(p)] = "/" THEN <<>>
  ELSE Append(basename(SubSeq(p, 1, Len(p) - 1)), p[Len(p)])

\* str.split("."): the fields between the dots, at least one
RECURSIVE SplitDots(_)
SplitDots(s) ==
  IF s = <<>> THEN << <<>> >>
  ELSE LET init == SplitDots(SubSeq(s, 1, Len(s) - 1))
       IN IF s[Len(s)] = "." THEN Append(init, <<>>)
          ELSE [init EXCEPT ![Len(init)] = Append(@, s[Len(s)])]

\* the traces of a stream that stream.select(network, station, location,
\* channel) keeps, in the order of the stream
select(stream, id) == SelectSeq(stream, LAMBDA tr : tr.id = id)

\* _get_trace_from_asdf returning the first tag of the station even when the
\* caller gave one
_get_trace_from_asdf_FirstTag(station_string, asdf_handle, tag) ==
  LET Raise(e) == [err |-> e, tr |-> None, tag |-> None] IN
  IF station_string = None THEN Raise("AttributeError")
  ELSE
  LET station_info == SplitDots(basename(station_string[1])) IN
  IF Len(station_info) # 4 THEN Raise("ValueError: Station string")
  ELSE
  LET network == station_info[1]
      station == station_info[2]
      station_name == network \o <<"_">> \o station
  IN
  IF Len(network) >= 3 /\ Len(station) <= 2
  THEN Raise("ValueError: Station string")
  ELSE IF station_name \notin DOMAIN asdf_handle.waveforms
  THEN Raise("AttributeError")
  ELSE
  LET st == asdf_handle.waveforms[station_name] IN
  IF st.tags = <<>> THEN Raise("IndexError")
  ELSE
  LET used == st.tags[1] IN
  IF used \notin DOMAIN st.streams THEN Raise("AttributeError")
  ELSE
  LET found == select(st.streams[used], station_info) IN
  IF found = <<>> THEN Raise("IndexError")
  ELSE [err |-> "", tr |-> Some(found[1]), tag |-> Some(used)]

\* DataContainer._get_trace_from_asdf; station_string and tag are optional
_get_trace_from_asdf(station_string, asdf_handle, tag) ==
  LET Raise(e) == [err |-> e, tr |-> None, tag |-> None] IN
  \* os.path.basename(None)
  IF station_string = None THEN Raise("AttributeError")
  ELSE
  LET station_info == SplitDots(basename(station_string[1])) IN
  IF Len(station_info) # 4 THEN Raise("ValueError: Station string")
  ELSE
  LET network == station_info[1]
      station == station_info[2]
      station_name == network \o <<"_">> \o station
  IN
  IF Len(network) >= 3 /\ Len(station) <= 2
  THEN Raise("ValueError: Station string")
  \* getattr(asdf_handle.waveforms, station_name)
  ELSE IF station_name \notin DOMAIN asdf_handle.waveforms
  THEN Raise("AttributeError")
  ELSE
  LET st == asdf_handle.waveforms[station_name] IN
  IF tag = None /\ Len(st.tags) # 1 THEN Raise("ValueError: data tags")
  ELSE
  LET used == IF tag = None THEN st.tags[1] ELSE tag[1] IN
  \* getattr(st, tag)
  IF used \notin DOMAIN st.streams THEN Raise("AttributeError")
  ELSE
  LET found == select(st.streams[used], station_info) IN
  IF found = <<>> THEN Raise("IndexError")
  ELSE [err |-> "", tr |-> Some(found[1]), tag |-> Some(used)]

\* DataContainer._get_station_loc_from_asdf
_get_station_loc_from_asdf(station_string, asdf_handle) ==
  LET Raise(e) == [err |-> e, latitude |-> None, longitude |-> None] IN
  \* None.split(".")
  IF station_string = None THEN Raise("AttributeError")
  ELSE
  LET station_info == SplitDots(station_string[1]) IN
  IF Len(station_info) # 4 THEN Raise("ValueError: Station string")
  ELSE
  LET network == station_info[1]
      station == station_info[2]
      station_name == network \o <<"_">> \o station
  IN
  IF Len(network) >= 3 \/ Len(station) <= 2
  THEN Raise("ValueError: Station string")
  ELSE IF station_name \notin DOMAIN asdf_handle.waveforms
  THEN Raise("AttributeError")
  ELSE
  LET st == asdf_handle.waveforms[station_name] IN
  IF "coordinates" \in st.attrs
  THEN [err |-> "", latitude |-> Some(st.coordinates.latitude),
        longitude |-> Some(st.coordinates.longitude)]
  ELSE IF "StationXML" \in st.attrs
  THEN [err |-> "", latitude |-> Some(st.StationXML.latitude),
        longitude |-> Some(st.StationXML.longitude)]
  ELSE Raise("ValueError: station location")

\* ------------------------------------------- identifiers and asdf archives

MaxIdLen == 7   \* longest generated identifier string

IdChars == {"x", ".", "/"}
IdStrings == UNION { [1..n -> IdChars] : n \in 0..MaxIdLen }

\* the stations of a generated archive: network x with stations xxx and xx
ArchiveStations == { << <<"x">>, <<"x", "x", "x">> >>, << <<"x">>, <<"x", "x">> >> }

TagLists == { <<>>, <<"t1">>, <<"t2">>, <<"t1", "t2">> }
TagArgs == { None, Some("t1"), Some("t2") }
AttrSets == SUBSET {"coordinates", "StationXML"}

SeqRange(q) == { q[i] : i \in 1..Len(q) }

\* an archive whose stations all carry the waveform tags tag_list, one trace
\* (empty location and channel) under each tag, and the metadata attrs
Archive(tag_list, attrs) ==
  [waveforms |->
     [name \in { k[1] \o <<"_">> \o k[2] : k \in ArchiveStations } |->
        LET k == CHOOSE k \in ArchiveStations : name = k[1] \o <<"_">> \o k[2]
        IN [tags |-> tag_list,
            streams |-> [t \in SeqRange(tag_list) |->
                           << [id |-> <<k[1], k[2], <<>>, <<>>>>, data |-> t] >>],
            attrs |-> attrs,
            coordinates |-> [latitude |-> 10, longitude |-> 20],
            StationXML |-> [latitude |-> 11, longitude |-> 21]]]]

InitAsdf ==
  /\ Constructed(NoParams)
  /\ \E s \in {None} \cup { Some(x) : x \in IdStrings } :
       \/ \E tl \in TagLists : \E t \in TagArgs :
            call = [op |-> "_get_trace_from_asdf", station_string |-> s,
                    tag_list |-> tl, asdf_handle |-> Archive(tl, {"coordinates"}),
                    tag |-> t]
       \/ \E at \in AttrSets :
            call = [op |-> "_get_station_loc_from_asdf", station_string |-> s,
                    tag_list |-> <<"t1">>, asdf_handle |-> Archive(<<"t1">>, at),
                    tag |-> None]
  /\ ret = Pending

\* the static method DataContainer._get_trace_from_asdf called on its own
CallGetTraceFromAsdf ==
  /\ ret = Pending
  /\ call.op = "_get_trace_from_asdf"
  /\ ret' = _get_trace_from_asdf(call.station_string, call.asdf_handle, call.tag)
  /\ UNCHANGED <<par_list, trwins, load_info, asdf_file_dict, opened, call>>

\* the static method DataContainer._get_station_loc_from_asdf called on its own
CallGetStationLocFromAsdf ==
  /\ ret = Pending
  /\ call.op = "_get_station_loc_from_asdf"
  /\ ret' = _get_station_loc_from_asdf(call.station_string, call.asdf_handle)
  /\ UNCHANGED <<par_list, trwins, load_info, asdf_file_dict, opened, call>>

NextAsdf == CallGetTraceFromAsdf \/ CallGetStationLocFromAsdf

SpecAsdf == InitAsdf /\ [][NextAsdf]_vars

TraceExtracted == call.op = "_get_trace_from_asdf" /\ ret # Pending

\* the identifier names a station of the archive
NamesStation(s, handle) ==
  /\ s # None
  /\ Len(SplitDots(basename(s[1]))) = 4
  /\ SplitDots(basename(s[1]))[1] \o <<"_">> \o SplitDots(basename(s[1]))[2]
       \in DOMAIN handle.waveforms

\* C8: extracting a trace with no tag given raises the ambiguity error when
\* the station has more than one waveform tag; with exactly one tag that tag
\* is used and is the tag returned for the role; a tag the caller gives is
\* used and returned whatever the number of tags of the station.
C8_TagResolution ==
  TraceExtracted =>
    /\ (call.tag = None /\ Len(call.tag_list) > 1) =>
         /\ ret.err # ""
         /\ NamesStation(call.station_string, call.asdf_handle) =>
              ret.err = "ValueError: data tags"
    /\ (call.tag = None /\ Len(call.tag_list) = 1) =>
         /\ ret.err # "ValueError: data tags"
         /\ ret.err = "" => /\ ret.tag = Some(call.tag_list[1])
                            /\ ret.tr[1].data = call.tag_list[1]
    /\ call.tag # None =>
         /\ ret.err # "ValueError: data tags"
         /\ ret.err = "" => /\ ret.tag = call.tag
                            /\ ret.tr[1].data = call.tag[1]

\* the ambiguity error was raised for a station with two tags
C8_Witness ==
  /\ TraceExtracted
  /\ call.tag = None /\ Len(call.tag_list) = 2
  /\ ret.err = "ValueError: data tags"

\* a string of exactly 4 dot-separated fields, a network of at most 2
\* characters and a station of more than 2
WellFormedId(s) ==
  /\ Len(SplitDots(s)) = 4
  /\ Len(SplitDots(s)[1]) <= 2
  /\ Len(SplitDots(s)[2]) > 2

\* C9: both asdf helpers reject every identifier that does not split into 4
\* fields with a network of at most 2 and a station of more than 2 characters
\* (for _get_trace_from_asdf, the identifier that is left of a path).
C9_IllFormedIdRejected ==
  (ret # Pending /\ call.station_string # None) =>
    /\ (/\ call.op = "_get_trace_from_asdf"
        /\ ~WellFormedId(basename(call.station_string[1]))) => ret.err # ""
    /\ (/\ call.op = "_get_station_loc_from_asdf"
        /\ ~WellFormedId(call.station_string[1])) => ret.err # ""

\* ------------------------------------------------- strings and dicts

UpperCase == <<"A", "B", "C", "D", "E", "F", "G", "H", "I", "J", "K", "L", "M", "N", "O", "P", "Q", "R", "S", "T", "U", "V", "W", "X", "Y", "Z">>
LowerCase == <<"a", "b", "c", "d", "e", "f", "g", "h", "i", "j", "k", "l", "m", "n", "o", "p", "q", "r", "s", "t", "u", "v", "w", "x", "y", "z">>

\* str.lower()
lower(s) ==
  [i \in 1..Len(s) |->
     IF \E k \in 1..Len(UpperCase) : UpperCase[k] = s[i]
     THEN LowerCase[CHOOSE k \in 1..Len(UpperCase) : UpperCase[k] = s[i]]
     ELSE s[i]]

\* d[k] = v
Put(d, k, v) == [x \in (DOMAIN d) \cup {k} |-> IF x = k THEN v ELSE d[x]]

\* ---------------------------------------------------- load_winfile_json
\* The content of a json window file is the list of its stations, a station
\* the list of its channels, a channel the list of its window records, each
\* list in the order in which the dict is iterated.

RECURSIVE Flatten(_)
Flatten(ss) == IF ss = <<>> THEN <<>> ELSE Head(ss) \o Flatten(Tail(ss))

\* the loop over the window records of one channel
RECURSIVE JsonWindows(_, _, _, _, _)
JsonWindows(chan_win, idx, win_time, win_weight, initial_weight) ==
  IF idx > Len(chan_win)
  THEN [err |-> "", win_time |-> win_time, win_weight |-> win_weight]
  ELSE LET win == chan_win[idx] IN
       IF ~({"relative_starttime", "relative_endtime"} \subseteq DOMAIN win)
       THEN [err |-> "KeyError", win_time |-> <<>>, win_weight |-> <<>>]
       ELSE JsonWindows(chan_win, idx + 1,
              Append(win_time, <<win.relative_starttime, win.relative_endtime>>),
              Append(win_weight, IF "initial_weighting" \in DOMAIN win
                                 THEN win.initial_weighting ELSE initial_weight),
              initial_weight)

\* the loops over the stations and their channels
RECURSIVE JsonTrwins(_, _, _, _)
JsonTrwins(chans, i, acc, initial_weight) ==
  IF i > Len(chans) THEN [err |-> "", trwins |-> acc]
  ELSE LET chan_win == chans[i] IN
       IF chan_win = <<>> THEN [err |-> "IndexError", trwins |-> <<>>]
       ELSE IF ~({"channel_id", "channel_id_2"} \subseteq DOMAIN chan_win[1])
       THEN [err |-> "KeyError", trwins |-> <<>>]
       ELSE LET wins == JsonWindows(chan_win, 1, <<>>, <<>>, initial_weight)
                made == TraceWindow([win_time |-> wins.win_time,
                                     obsd_id |-> chan_win[1].channel_id,
                                     synt_id |-> chan_win[1].channel_id_2,
                                     init_weight |-> wins.win_weight])
            IN IF wins.err # "" THEN [err |-> wins.err, trwins |-> <<>>]
               ELSE IF made.err # "" THEN [err |-> made.err, trwins |-> <<>>]
               ELSE JsonTrwins(chans, i + 1, Append(acc, made.obj), initial_weight)

\* DataContainer.load_winfile_json on the content of an existing json file
load_winfile_json(content, initial_weight) ==
  JsonTrwins(Flatten(content), 1, <<>>, initial_weight)

\* ----------------------------------------------------------- load_winfile
\* A window file is [exists, kind, lines, content]: the lines of a "txt"
\* file, the content of a "json" one.

FormatOptions == { <<"t", "x", "t">>, <<"j", "s", "o", "n">> }

\* load_winfile_txt on a window file: open(flexwin_file) and the parse
OpenWinfileTxt(flexwin_file, initial_weight) ==
  IF ~flexwin_file.exists
  THEN [err |-> "IOError", trwins |-> <<>>, opened |-> <<flexwin_file.path>>]
  ELSE IF flexwin_file.kind # "txt"
  THEN [err |-> "ValueError", trwins |-> <<>>, opened |-> <<flexwin_file.path>>]
  ELSE LET r == load_winfile_txt(flexwin_file.lines, initial_weight)
       IN [err |-> r.err, trwins |-> r.trwins, opened |-> <<flexwin_file.path>>]

\* load_winfile_json on a window file: open(flexwin_file), json.load and the
\* loops
OpenWinfileJson(flexwin_file, initial_weight) ==
  IF ~flexwin_file.exists
  THEN [err |-> "IOError", trwins |-> <<>>, opened |-> <<flexwin_file.path>>]
  ELSE IF flexwin_file.kind # "json"
  THEN [err |-> "ValueError", trwins |-> <<>>, opened |-> <<flexwin_file.path>>]
  ELSE LET r == load_winfile_json(flexwin_file.content, initial_weight)
       IN [err |-> r.err, trwins |-> r.trwins, opened |-> <<flexwin_file.path>>]

\* load_winfile without its test of the format: what is not json is read as
\* the line format
load_winfile_DefaultsToTxt(flexwin_file, initial_weight, file_format) ==
  IF lower(file_format) = <<"j", "s", "o", "n">>
  THEN OpenWinfileJson(flexwin_file, initial_weight)
  ELSE OpenWinfileTxt(flexwin_file, initial_weight)

\* DataContainer.load_winfile: what it raises, the groups it returns and the
\* files it opened
load_winfile(flexwin_file, initial_weight, file_format) ==
  IF lower(file_format) \notin FormatOptions
  THEN [err |-> "ValueError", trwins |-> <<>>, opened |-> <<>>]
  ELSE IF lower(file_format) = <<"t", "x", "t">>
  THEN OpenWinfileTxt(flexwin_file, initial_weight)
  ELSE IF lower(file_format) = <<"j", "s", "o", "n">>
  THEN OpenWinfileJson(flexwin_file, initial_weight)
  ELSE [err |-> "NotImplementedError", trwins |-> <<>>, opened |-> <<>>]

\* ------------------------------------------------ load_station_from_text

\* the loop over the lines of a STATIONS file: station network latitude
\* longitude elevation; the key "NW_STA" is the pair <<network, station>>.
\* info[1] and info[0] are read first, then float(info[2]), float(info[3])
\* and float(info[4]) in turn.
RECURSIVE StationLines(_, _, _)
StationLines(content, i, station_dict) ==
  IF i > Len(content) THEN [err |-> "", station_dict |-> station_dict]
  ELSE With(content[i], LAMBDA info :
       With({ k \in 3..5 : Len(info) < k \/ ~FloatOk(info[k]) }, LAMBDA bad :
         IF Len(info) < 2 THEN [err |-> "IndexError", station_dict |-> <<>>]
         ELSE IF bad # {}
         THEN [err |-> IF Len(info) < CHOOSE k \in bad : \A j \in bad : k <= j
                       THEN "IndexError" ELSE "ValueError",
               station_dict |-> <<>>]
         ELSE StationLines(content, i + 1,
                Put(station_dict, <<info[2], info[1]>>,
                    <<FloatOf(info[3]), FloatOf(info[4]), FloatOf(info[5])>>))))

\* DataContainer.load_station_from_text
load_station_from_text(stationfile) ==
  IF ~stationfile.exists THEN [err |-> "IOError", station_dict |-> <<>>]
  ELSE StationLines(stationfile.lines, 1, <<>>)

RelativeTime == <<"r", "e", "l", "a", "t", "i", "v", "e", "_", "t", "i", "m", "e">>
ObsoluteTime == <<"o", "b", "s", "o", "l", "u", "t", "e", "_", "t", "i", "m", "e">>

\* ------------------------------------------------------- the sac backend
\* An obspy Trace is [id |-> <<network, station, location, channel>>,
\* sac |-> the sac header (only the fields that are set), data].  The
\* file system maps a path to the trace that obspy.read finds there.

\* the properties TraceWindow.obsd_id and TraceWindow.synt_id: the id joined
\* with dots where the trace is loaded, None otherwise
JoinDots(id) == id[1] \o <<".">> \o id[2] \o <<".">> \o id[3] \o <<".">> \o id[4]
obsd_id(self) == IF "obsd" \in DOMAIN self.datalist
                 THEN Some(JoinDots(self.datalist.obsd.id)) ELSE None
synt_id(self) == IF "synt" \in DOMAIN self.datalist
                 THEN Some(JoinDots(self.datalist.synt.id)) ELSE None

\* the calibration shifting the start of each window and not its end
__calibrate_window_time_for_sac_ShiftsStart(trace_obj) ==
  IF "b" \notin DOMAIN trace_obj.datalist.obsd.sac
  THEN [err |-> "KeyError", obj |-> trace_obj]
  ELSE
  With(trace_obj.datalist.obsd.sac.b, LAMBDA b_tshift :
  With([trace_obj EXCEPT !.windows =
          [ii \in 1..Len(trace_obj.windows) |->
             <<trace_obj.windows[ii][1] - b_tshift,
               trace_obj.windows[ii][2]>>]], LAMBDA shifted :
    IF Len(shifted.windows) = 0
    THEN [err |-> "UnboundLocalError", obj |-> shifted]
    ELSE IF shifted.windows[Len(shifted.windows)][2] < 0
    THEN [err |-> "ValueError", obj |-> shifted]
    ELSE [err |-> "", obj |-> shifted]))

\* DataContainer.__calibrate_window_time_for_sac: every window is shifted in
\* place; the test that follows the loops reads the loop variables as the
\* loops left them (the end of the last window), which are unbound when the
\* group has no window
__calibrate_window_time_for_sac(trace_obj) ==
  IF "b" \notin DOMAIN trace_obj.datalist.obsd.sac
  THEN [err |-> "KeyError", obj |-> trace_obj]
  ELSE
  With(trace_obj.datalist.obsd.sac.b, LAMBDA b_tshift :
  With([trace_obj EXCEPT !.windows =
          [ii \in 1..Len(trace_obj.windows) |->
             <<trace_obj.windows[ii][1] - b_tshift,
               trace_obj.windows[ii][2] - b_tshift>>]], LAMBDA shifted :
    IF Len(shifted.windows) = 0
    THEN [err |-> "UnboundLocalError", obj |-> shifted]
    ELSE IF shifted.windows[Len(shifted.windows)][2] < 0
    THEN [err |-> "ValueError", obj |-> shifted]
    ELSE [err |-> "", obj |-> shifted]))

\* obspy.read(path)[0]
read(fs, path) == IF path \in DOMAIN fs THEN [err |-> "", tr |-> fs[path]]
                  ELSE [err |-> "IOError", tr |-> <<>>]

\* the loop of load_data_from_sac passing over a derivative file that is
\* missing
RECURSIVE LoadDerivSac_SkipsMissing(_, _, _, _, _)
LoadDerivSac_SkipsMissing(trace_obj, pars, i, tag, fs) ==
  IF i > Len(pars) THEN [err |-> "", obj |-> trace_obj]
  ELSE With(read(fs, Append(trace_obj.path_dict.synt, <<"ext", pars[i]>>)),
         LAMBDA got :
           IF got.err # ""
           THEN LoadDerivSac_SkipsMissing(trace_obj, pars, i + 1, tag, fs)
           ELSE LoadDerivSac_SkipsMissing(
                  [trace_obj EXCEPT !.datalist = Put(@, pars[i], got.tr),
                                    !.tag = Some(Put(@[1], pars[i], tag))],
                  pars, i + 1, tag, fs))

\* the loop of load_data_from_sac over the derivative parameters
RECURSIVE LoadDerivSac(_, _, _, _, _)
LoadDerivSac(trace_obj, pars, i, tag, fs) ==
  IF i > Len(pars) THEN [err |-> "", obj |-> trace_obj]
  ELSE With(read(fs, Append(trace_obj.path_dict.synt, <<"ext", pars[i]>>)),
         LAMBDA got :
           IF got.err # "" THEN [err |-> got.err, obj |-> trace_obj]
           ELSE LoadDerivSac(
                  [trace_obj EXCEPT !.datalist = Put(@, pars[i], got.tr),
                                    !.tag = Some(Put(@[1], pars[i], tag))],
                  pars, i + 1, tag, fs))

\* the station information of load_data_from_sac and the source
StationSac(trace_obj, station_dict) ==
  IF station_dict = None
  THEN LET sac == trace_obj.datalist.synt.sac IN
       IF "stlo" \notin DOMAIN sac THEN [err |-> "KeyError", obj |-> trace_obj]
       ELSE IF "stla" \notin DOMAIN sac
       THEN [err |-> "KeyError",
             obj |-> [trace_obj EXCEPT !.longitude = Some(sac.stlo)]]
       ELSE [err |-> "",
             obj |-> [trace_obj EXCEPT !.longitude = Some(sac.stlo),
                                       !.latitude = Some(sac.stla),
                                       !.source = Some("sac")]]
  ELSE LET key == <<trace_obj.datalist.obsd.id[1], trace_obj.datalist.obsd.id[2]>> IN
       IF key \notin DOMAIN station_dict[1]
       THEN [err |-> "KeyError", obj |-> trace_obj]
       ELSE [err |-> "",
             obj |-> [trace_obj EXCEPT !.latitude = Some(station_dict[1][key][1]),
                                       !.longitude = Some(station_dict[1][key][2]),
                                       !.source = Some("sac")]]

\* DataContainer.load_data_from_sac: what it raises and the trace_obj as it
\* leaves it
load_data_from_sac(par_list_, trace_obj, tag, mode, station_dict, fs) ==
  With([trace_obj EXCEPT !.datalist = <<>>, !.tag = Some(<<>>)], LAMBDA reset :
  With(read(fs, trace_obj.path_dict.obsd), LAMBDA obsd :
    IF obsd.err # "" THEN [err |-> obsd.err, obj |-> reset]
    ELSE
  With([reset EXCEPT !.datalist = Put(@, "obsd", obsd.tr),
                     !.tag = Some(Put(@[1], "obsd", tag))], LAMBDA with_obsd :
  With(IF mode = RelativeTime
       THEN __calibrate_window_time_for_sac(with_obsd)
       ELSE [err |-> "", obj |-> with_obsd], LAMBDA calibrated :
    IF calibrated.err # "" THEN calibrated
    ELSE
  With(read(fs, trace_obj.path_dict.synt), LAMBDA synt :
    IF synt.err # "" THEN [err |-> synt.err, obj |-> calibrated.obj]
    ELSE
  With(LoadDerivSac([calibrated.obj EXCEPT
                       !.datalist = Put(@, "synt", synt.tr),
                       !.tag = Some(Put(@[1], "synt", tag))],
                    par_list_, 1, tag, fs), LAMBDA derivs :
    IF derivs.err # "" THEN derivs
    ELSE StationSac(derivs.obj, station_dict)))))))

\* ------------------------------------------------------ the asdf backend

\* the loop of load_data_from_asdf over the derivative parameters
RECURSIVE LoadDerivAsdf(_, _, _, _, _)
LoadDerivAsdf(trace_obj, pars, i, asdf_ds, synt_tag) ==
  IF i > Len(pars) THEN [err |-> "", obj |-> trace_obj]
  ELSE With(_get_trace_from_asdf(synt_id(trace_obj), asdf_ds[pars[i]], synt_tag),
         LAMBDA got :
           IF got.err # "" THEN [err |-> got.err, obj |-> trace_obj]
           ELSE LoadDerivAsdf(
                  [trace_obj EXCEPT !.datalist = Put(@, pars[i], got.tr[1]),
                                    !.tag = Some(Put(@[1], pars[i], got.tag[1]))],
                  pars, i + 1, asdf_ds, synt_tag))

\* the station information of load_data_from_asdf and the source
StationAsdf(trace_obj, asdf_ds, station_dict) ==
  IF station_dict = None
  THEN With(_get_station_loc_from_asdf(obsd_id(trace_obj), asdf_ds.synt),
         LAMBDA loc :
           IF loc.err # "" THEN [err |-> loc.err, obj |-> trace_obj]
           ELSE [err |-> "",
                 obj |-> [trace_obj EXCEPT !.latitude = loc.latitude,
                                           !.longitude = loc.longitude,
                                           !.source = Some("asdf")]])
  ELSE LET key == <<trace_obj.datalist.obsd.id[1], trace_obj.datalist.obsd.id[2]>> IN
       IF key \notin DOMAIN station_dict[1]
       THEN [err |-> "KeyError", obj |-> trace_obj]
       ELSE [err |-> "",
             obj |-> [trace_obj EXCEPT !.latitude = Some(station_dict[1][key][1]),
                                       !.longitude = Some(station_dict[1][key][2]),
                                       !.source = Some("asdf")]]

\* DataContainer.load_data_from_asdf: what it raises and the trace_obj as it
\* leaves it.  obsd_id and synt_id are read after datalist was emptied.
load_data_from_asdf(par_list_, trace_obj, asdf_ds, obsd_tag, synt_tag, station_dict) ==
  With([trace_obj EXCEPT !.datalist = <<>>, !.tag = Some(<<>>)], LAMBDA reset :
  With(_get_trace_from_asdf(obsd_id(reset), asdf_ds.obsd, obsd_tag), LAMBDA obsd :
    IF obsd.err # "" THEN [err |-> obsd.err, obj |-> reset]
    ELSE
  With([reset EXCEPT !.datalist = Put(@, "obsd", obsd.tr[1]),
                     !.tag = Some(Put(@[1], "obsd", obsd.tag[1]))],
       LAMBDA with_obsd :
  With(_get_trace_from_asdf(synt_id(with_obsd), asdf_ds.synt, synt_tag),
       LAMBDA synt :
    IF synt.err # "" THEN [err |-> synt.err, obj |-> with_obsd]
    ELSE
  With(LoadDerivAsdf([with_obsd EXCEPT
                        !.datalist = Put(@, "synt", synt.tr[1]),
                        !.tag = Some(Put(@[1], "synt", synt.tag[1]))],
                     par_list_, 1, asdf_ds, synt_tag), LAMBDA derivs :
    IF derivs.err # "" THEN derivs
    ELSE StationAsdf(derivs.obj, asdf_ds, station_dict))))))

\* the first of the keys that the dict lacks, 0 when it has them all
RECURSIVE FirstMissing(_, _, _)
FirstMissing(keys, d, i) ==
  IF i > Len(keys) THEN 0
  ELSE IF keys[i] \notin DOMAIN d THEN i ELSE FirstMissing(keys, d, i + 1)

\* check_and_load_asdf_file opening each archive as soon as its key is found
check_and_load_asdf_file_OpensWhileChecking(par_list_, asdf_file_dict_, archives) ==
  IF asdf_file_dict_ = None
  THEN [err |-> "TypeError", dataset |-> <<>>, opened |-> <<>>]
  ELSE
  LET necessary_keys == <<"obsd", "synt">> \o par_list_
      d == asdf_file_dict_[1]
      miss == FirstMissing(necessary_keys, d, 1)
      n == IF miss = 0 THEN Len(necessary_keys) ELSE miss - 1
  IN [err |-> IF miss = 0 THEN "" ELSE "ValueError",
      dataset |-> IF miss # 0 THEN <<>>
                  ELSE [key \in SeqRange(necessary_keys) |->
                          IF d[key] \in DOMAIN archives THEN archives[d[key]]
                          ELSE [waveforms |-> <<>>]],
      opened |-> [i \in 1..n |-> d[necessary_keys[i]]]]

\* DataContainer.check_and_load_asdf_file: what it raises, the dataset of
\* each key and the archives it opened.  ASDFDataSet(name) opens the archive
\* of that name, a new and empty one when there is none.
check_and_load_asdf_file(par_list_, asdf_file_dict_, archives) ==
  IF asdf_file_dict_ = None
  THEN [err |-> "TypeError", dataset |-> <<>>, opened |-> <<>>]
  ELSE
  LET necessary_keys == <<"obsd", "synt">> \o par_list_
      d == asdf_file_dict_[1]
  IN IF FirstMissing(necessary_keys, d, 1) # 0
     THEN [err |-> "ValueError", dataset |-> <<>>, opened |-> <<>>]
     ELSE [err |-> "",
           dataset |-> [key \in SeqRange(necessary_keys) |->
                          IF d[key] \in DOMAIN archives THEN archives[d[key]]
                          ELSE [waveforms |-> <<>>]],
           opened |-> [i \in 1..Len(necessary_keys) |-> d[necessary_keys[i]]]]

\* ------------------------------------------------------- DataContainer
\* self is [par_list, trwins, load_info, asdf_file_dict].  An ingestion
\* returns what it raised, the stage it raised in, the groups the parser
\* returned, and trwins, _load_info, _asdf_file_dict and the opened files as
\* it leaves them.  The groups of self.trwins are the objects that the loop
\* loads, so what a load did to a group before it raised stays in trwins.

\* the derivative parameters named at data_container.py:515
PAR_LIST == {"Mrr", "Mtt", "Mpp", "Mrt", "Mrp", "Mtp", "dep", "lat", "lon",
             "ctm", "hdr"}

\* DataContainer._check_parlist
_check_parlist(pl) == \A i \in 1..Len(pl) : pl[i] \in PAR_LIST

\* DataContainer.__len__
__len__(self) == Len(self.trwins)

\* DataContainer.nwindows and DataContainer._get_counts
RECURSIVE SumWindows(_, _)
SumWindows(trwins_, i) ==
  IF i > Len(trwins_) THEN 0 ELSE nwindows(trwins_[i]) + SumWindows(trwins_, i + 1)

container_nwindows(self) == SumWindows(self.trwins, 1)

_get_counts(trwins_) == [ntrwins |-> Len(trwins_), nwindows |-> SumWindows(trwins_, 1)]

\* self.trwins = trwins in place of self.trwins += trwins
Extend_Replaces(old, new) == new

\* self.trwins += trwins
Extend(old, new) == old \o new

\* external_stationfile is None or the STATIONS file to load
StationInfo(external_stationfile) ==
  IF external_stationfile = None
  THEN [err |-> "", station_dict |-> None, opened |-> <<>>]
  ELSE LET r == load_station_from_text(external_stationfile[1])
       IN [err |-> r.err, station_dict |-> Some(r.station_dict),
           opened |-> <<external_stationfile[1].path>>]

\* the loop of add_measurements_from_sac over the new groups; it stops at the
\* first group whose load raises
RECURSIVE LoadAllSac(_, _, _, _, _, _, _)
LoadAllSac(par_list_, groups, i, tag, mode, station_dict, fs) ==
  IF i > Len(groups) THEN [err |-> "", groups |-> groups]
  ELSE With(load_data_from_sac(par_list_, groups[i], tag, mode, station_dict, fs),
         LAMBDA r :
           IF r.err # "" THEN [err |-> r.err, groups |-> [groups EXCEPT ![i] = r.obj]]
           ELSE LoadAllSac(par_list_, [groups EXCEPT ![i] = r.obj], i + 1, tag,
                           mode, station_dict, fs))

\* DataContainer.add_measurements_from_sac
add_measurements_from_sac(self, flexwinfile, tag, initial_weight, external_stationfile, window_time_mode, file_format, fs) ==
  LET Left(e, stage, parsed, tw, li, op) ==
        [err |-> e, stage |-> stage, parsed |-> parsed, trwins |-> tw,
         load_info |-> li, asdf_file_dict |-> self.asdf_file_dict, opened |-> op]
  IN
  With(lower(window_time_mode), LAMBDA mode :
    IF mode \notin {ObsoluteTime, RelativeTime}
    THEN Left("ValueError", "mode", <<>>, self.trwins, self.load_info, <<>>)
    ELSE
  With(load_winfile(flexwinfile, initial_weight, file_format), LAMBDA lw :
    IF lw.err # ""
    THEN Left(lw.err, "winfile", <<>>, self.trwins, self.load_info, lw.opened)
    ELSE
  With(StationInfo(external_stationfile), LAMBDA st :
    IF st.err # ""
    THEN Left(st.err, "stationfile", lw.trwins, Extend(self.trwins, lw.trwins),
              self.load_info, lw.opened \o st.opened)
    ELSE
  With(LoadAllSac(self.par_list, lw.trwins, 1, tag, mode, st.station_dict, fs),
       LAMBDA loaded :
    IF loaded.err # ""
    THEN Left(loaded.err, "load", lw.trwins, Extend(self.trwins, loaded.groups),
              self.load_info, lw.opened \o st.opened)
    ELSE Left("", "done", lw.trwins, Extend(self.trwins, loaded.groups),
              Put(self.load_info, flexwinfile.path, _get_counts(loaded.groups)),
              lw.opened \o st.opened)))))

\* the loop of add_measurements_from_asdf over the new groups
RECURSIVE LoadAllAsdf(_, _, _, _, _, _, _)
LoadAllAsdf(par_list_, groups, i, asdf_ds, obsd_tag, synt_tag, station_dict) ==
  IF i > Len(groups) THEN [err |-> "", groups |-> groups]
  ELSE With(load_data_from_asdf(par_list_, groups[i], asdf_ds, obsd_tag,
                                synt_tag, station_dict),
         LAMBDA r :
           IF r.err # "" THEN [err |-> r.err, groups |-> [groups EXCEPT ![i] = r.obj]]
           ELSE LoadAllAsdf(par_list_, [groups EXCEPT ![i] = r.obj], i + 1,
                            asdf_ds, obsd_tag, synt_tag, station_dict))

\* DataContainer.add_measurements_from_asdf
add_measurements_from_asdf(self, flexwinfile, asdf_file_dict_, obsd_tag, synt_tag, external_stationfile, initial_weight, file_format, archives) ==
  LET Left(e, stage, parsed, tw, li, afd, op) ==
        [err |-> e, stage |-> stage, parsed |-> parsed, trwins |-> tw,
         load_info |-> li, asdf_file_dict |-> afd, opened |-> op]
  IN
  With(load_winfile(flexwinfile, initial_weight, file_format), LAMBDA lw :
    IF lw.err # ""
    THEN Left(lw.err, "winfile", <<>>, self.trwins, self.load_info,
              self.asdf_file_dict, lw.opened)
    ELSE
  With(check_and_load_asdf_file(self.par_list, asdf_file_dict_, archives),
       LAMBDA ds :
    IF ds.err # ""
    THEN Left(ds.err, "asdf_file", lw.trwins, Extend(self.trwins, lw.trwins),
              self.load_info, self.asdf_file_dict, lw.opened \o ds.opened)
    ELSE
  With(StationInfo(external_stationfile), LAMBDA st :
    IF st.err # ""
    THEN Left(st.err, "stationfile", lw.trwins, Extend(self.trwins, lw.trwins),
              self.load_info, asdf_file_dict_,
              lw.opened \o ds.opened \o st.opened)
    ELSE
  With(LoadAllAsdf(self.par_list, lw.trwins, 1, ds.dataset, obsd_tag, synt_tag,
                   st.station_dict), LAMBDA loaded :
    IF loaded.err # ""
    THEN Left(loaded.err, "load", lw.trwins, Extend(self.trwins, loaded.groups),
              self.load_info, asdf_file_dict_,
              lw.opened \o ds.opened \o st.opened)
    ELSE Left("", "done", lw.trwins, Extend(self.trwins, loaded.groups),
              Put(self.load_info, flexwinfile.path, _get_counts(loaded.groups)),
              asdf_file_dict_, lw.opened \o ds.opened \o st.opened)))))

\* ----------------------------------------------- the files of the model

MaxTrwins == 2   \* most groups the container holds

RowA == <<I(1), F(2)>>   \* the window 1.0 2.5
RowB == <<F(0), I(1)>>   \* the window 0.5 1.0

\* the sac files: an observed trace that starts at 0.0, one that starts at
\* 2.0 (after the end of RowB); a synthetic with both station coordinates and
\* both derivatives, one whose header has no stla, one whose dep derivative
\* is missing.  The paths <<W(3)>> and <<W(8)>> name no file.
SacTrace(station, header, label) ==
  [id |-> <<W(10), station, W(0), W(12)>>, sac |-> header, data |-> label]

SacFS ==
     (<<W(1)>> :> SacTrace(W(11), [b |-> 0], 1))
  @@ (<<W(2)>> :> SacTrace(W(13), [b |-> 4], 2))
  @@ (<<W(5)>> :> SacTrace(W(11), [b |-> 0, stlo |-> 40, stla |-> 80], 5))
  @@ (<<W(5), <<"ext", "Mrr">>>> :> SacTrace(W(11), [b |-> 0], 51))
  @@ (<<W(5), <<"ext", "dep">>>> :> SacTrace(W(11), [b |-> 0], 52))
  @@ (<<W(6)>> :> SacTrace(W(11), [b |-> 0, stlo |-> 40], 6))
  @@ (<<W(6), <<"ext", "Mrr">>>> :> SacTrace(W(11), [b |-> 0], 61))
  @@ (<<W(6), <<"ext", "dep">>>> :> SacTrace(W(11), [b |-> 0], 62))
  @@ (<<W(7)>> :> SacTrace(W(11), [b |-> 0, stlo |-> 40, stla |-> 80], 7))
  @@ (<<W(7), <<"ext", "Mrr">>>> :> SacTrace(W(11), [b |-> 0], 71))

\* the groups that the window files of a first ingestion declare
FileGroups ==
  { [obsd |-> <<W(1)>>, synt |-> <<W(5)>>, rows |-> <<RowA>>],
    [obsd |-> <<W(2)>>, synt |-> <<W(5)>>, rows |-> <<RowB, RowA>>],
    [obsd |-> <<W(2)>>, synt |-> <<W(5)>>, rows |-> <<RowA, RowB>>],
    [obsd |-> <<W(1)>>, synt |-> <<W(6)>>, rows |-> <<RowA>>],
    [obsd |-> <<W(1)>>, synt |-> <<W(7)>>, rows |-> <<RowA>>],
    [obsd |-> <<W(3)>>, synt |-> <<W(5)>>, rows |-> <<RowA>>],
    [obsd |-> <<W(1)>>, synt |-> <<W(5)>>, rows |-> <<>>],
    [obsd |-> <<W(1)>>, synt |-> <<W(8)>>, rows |-> <<RowA, <<I(1), F(2), I(3)>>>>] }

TxtFile(lines) == [path |-> "win.txt", exists |-> TRUE, kind |-> "txt",
                   lines |-> lines, content |-> <<>>]
JsonFile(content) == [path |-> "win.json", exists |-> TRUE, kind |-> "json",
                      lines |-> <<>>, content |-> content]
MissingFile == [path |-> "nowhere", exists |-> FALSE, kind |-> "txt",
                lines |-> <<>>, content |-> <<>>]

\* json window files: no station, a station without channels, and a station
\* with one channel of one window record
JsonFiles ==
  { JsonFile(<<>>), JsonFile(<< <<>> >>),
    JsonFile(<< << << [channel_id |-> <<"x">>, channel_id_2 |-> <<"x">>,
                       relative_starttime |-> 2, relative_endtime |-> 5] >> >> >>) }

\* the window files that declare at most MaxFileGroups of the groups, a file
\* whose header is no count, a path without a file and the json files
SacWinFiles ==
  { TxtFile(WriteTxt(decl, "none")) :
      decl \in UNION { [1..n -> FileGroups] : n \in 0..MaxFileGroups } }
  \cup { TxtFile(WriteTxt(<<>>, "header")), MissingFile } \cup JsonFiles

\* the window files that a container ingests over several calls: of no
\* group, of a group that loads (its observed trace starts at 2.0), of a
\* group whose synthetic has no stla, of both in either order, and a path
\* without a file
GroupLoads == [obsd |-> <<W(2)>>, synt |-> <<W(5)>>, rows |-> <<RowA>>]
GroupNoStla == [obsd |-> <<W(1)>>, synt |-> <<W(6)>>, rows |-> <<RowA, RowB>>]

ContainerWinFiles ==
  { TxtFile(WriteTxt(decl, "none")) :
      decl \in { <<>>, <<GroupLoads>>, <<GroupNoStla>>,
                 <<GroupLoads, GroupNoStla>>, <<GroupNoStla, GroupLoads>> } }
  \cup { MissingFile }

\* the number of groups that a window file declares
DeclaredCount(f) ==
  IF f.exists /\ f.kind = "txt" /\ IntOk(ReadLine(f.lines, 1))
  THEN IntOf(ReadLine(f.lines, 1)) ELSE 0

\* STATIONS files: one that lists station 11 of network 10, one with a short
\* line, and a path without a file
StationFiles ==
  { [path |-> "STATIONS", exists |-> TRUE,
     lines |-> << <<W(11), W(10), I(1), I(2), I(0)>> >>],
    [path |-> "STATIONS", exists |-> TRUE, lines |-> << <<W(11), W(10)>> >>],
    [path |-> "STATIONS", exists |-> FALSE, lines |-> <<>>] }

StationFileArgs == {None} \cup { Some(f) : f \in StationFiles }

TimeModes == { RelativeTime, ObsoluteTime, <<"a", "b", "s", "o", "l", "u", "t", "e", "_", "t", "i", "m", "e">> }
FileFormats == { <<"T", "X", "T">>, <<"j", "s", "o", "n">>, <<"s", "a", "c">> }

\* the archive of each key and the archives that exist
ArchiveName == [obsd |-> "obsd.h5", synt |-> "synt.h5", Mrr |-> "Mrr.h5",
                dep |-> "dep.h5"]
ArchiveNames == { ArchiveName[k] : k \in DOMAIN ArchiveName }
ArchiveFS == [n \in ArchiveNames |-> Archive(<<"t1">>, {"coordinates"})]

\* what the caller passes as asdf_file_dict: no dict, a dict of every key,
\* and the dicts that lack one key
AsdfFileDicts ==
  {None} \cup { Some([k \in K |-> ArchiveName[k]]) :
                  K \in { L \in SUBSET DOMAIN ArchiveName :
                            Cardinality(L) >= Cardinality(DOMAIN ArchiveName) - 1 } }

\* file_format as the callers of a container pass it
ContainerFormats == { <<"T", "X", "T">>, <<"s", "a", "c">> }

\* the parameter lists a container is constructed with
ParLists == { <<>>, <<"Mrr", "dep">>, <<"Mrr", "foo">> }

Self == [par_list |-> par_list, trwins |-> trwins, load_info |-> load_info,
         asdf_file_dict |-> asdf_file_dict]

\* the files whose groups the container of the model has room for
Fits(f) == Len(trwins) + DeclaredCount(f) <= MaxTrwins

Init ==
  /\ \E pl \in ParLists : _check_parlist(pl) /\ Constructed(pl)
  /\ call = [op |-> "__init__", file_format |-> <<>>, window_time_mode |-> <<>>,
             asdf_file_dict |-> None]
  /\ ret = [err |-> "", stage |-> "done", parsed |-> <<>>]

\* container.add_measurements_from_sac(f, external_stationfile=sf,
\* window_time_mode=m, file_format=ff)
CallAddMeasurementsFromSac(f, sf, m, ff) ==
  \E r \in { add_measurements_from_sac(Self, f, "untaged", 2, sf, m, ff, SacFS) } :
     /\ trwins' = r.trwins
     /\ load_info' = r.load_info
     /\ asdf_file_dict' = r.asdf_file_dict
     /\ opened' = r.opened
     /\ call' = [op |-> "add_measurements_from_sac", file_format |-> ff,
                 window_time_mode |-> m, asdf_file_dict |-> None]
     /\ ret' = [err |-> r.err, stage |-> r.stage, parsed |-> r.parsed]
     /\ UNCHANGED par_list

\* container.add_measurements_from_asdf(f, d, synt_tag=st,
\* external_stationfile=sf, file_format=ff)
CallAddMeasurementsFromAsdf(f, d, st, sf, ff) ==
  \E r \in { add_measurements_from_asdf(Self, f, d, None, st, sf, 2, ff, ArchiveFS) } :
     /\ trwins' = r.trwins
     /\ load_info' = r.load_info
     /\ asdf_file_dict' = r.asdf_file_dict
     /\ opened' = r.opened
     /\ call' = [op |-> "add_measurements_from_asdf", file_format |-> ff,
                 window_time_mode |-> <<>>, asdf_file_dict |-> d]
     /\ ret' = [err |-> r.err, stage |-> r.stage, parsed |-> r.parsed]
     /\ UNCHANGED par_list

AddMeasurementsFromSac ==
  \E f \in ContainerWinFiles : \E ff \in ContainerFormats :
    Fits(f) /\ CallAddMeasurementsFromSac(f, None, RelativeTime, ff)

AddMeasurementsFromAsdf ==
  \E f \in ContainerWinFiles : \E d \in AsdfFileDicts : \E ff \in ContainerFormats :
    Fits(f) /\ CallAddMeasurementsFromAsdf(f, d, None, None, ff)

Next == AddMeasurementsFromSac \/ AddMeasurementsFromAsdf

Spec == Init /\ [][Next]_vars

\* one sac ingestion into a new container, from every file of SacWinFiles
FirstAddMeasurementsFromSac ==
  /\ call.op = "__init__"
  /\ \E f \in SacWinFiles : \E sf \in StationFileArgs :
       \E m \in TimeModes : \E ff \in FileFormats :
         CallAddMeasurementsFromSac(f, sf, m, ff)

NextSac == FirstAddMeasurementsFromSac

SpecSac == Init /\ [][NextSac]_vars

\* one asdf ingestion into a new container, from every file of SacWinFiles
FirstAddMeasurementsFromAsdf ==
  /\ call.op = "__init__"
  /\ \E f \in SacWinFiles : \E d \in AsdfFileDicts : \E st \in TagArgs :
       \E sf \in StationFileArgs : \E ff \in FileFormats :
         CallAddMeasurementsFromAsdf(f, d, st, sf, ff)

\* the first ingestion of a new container, by either backend
NextFirst == FirstAddMeasurementsFromSac \/ FirstAddMeasurementsFromAsdf

SpecFirst == Init /\ [][NextFirst]_vars

\* the window files of a container that is filled in either time mode: of no
\* group, of one group (observed traces that start at 0.0 and at 2.0), and of
\* two groups with different observed traces in either order
GroupFromZero == [obsd |-> <<W(1)>>, synt |-> <<W(5)>>, rows |-> <<RowA>>]
GroupTwoRows == [obsd |-> <<W(2)>>, synt |-> <<W(5)>>, rows |-> <<RowB, RowA>>]

CalibWinFiles ==
  { TxtFile(WriteTxt(decl, "none")) :
      decl \in { <<>>, <<GroupLoads>>, <<GroupFromZero>>, <<GroupTwoRows>>,
                 <<GroupNoStla>>, <<GroupLoads, GroupFromZero>>,
                 <<GroupFromZero, GroupLoads>> } }

\* container.add_measurements_from_sac(f, window_time_mode=m)
AddMeasurementsFromSacInMode ==
  \E f \in CalibWinFiles : \E m \in {RelativeTime, ObsoluteTime} :
    Fits(f) /\ CallAddMeasurementsFromSac(f, None, m, <<"t", "x", "t">>)

NextCalib == AddMeasurementsFromSacInMode

SpecCalib == Init /\ [][NextCalib]_vars

\* ------------------------------------------------ claims on the container

IngestOps == {"add_measurements_from_sac", "add_measurements_from_asdf"}

\* C1: an ingestion call that raises while it loads the waveforms or the
\* station of a group leaves the group sequence as it was before the call
C1_FailedLoadKeepsNoGroup ==
  [][(call'.op \in IngestOps /\ ret'.stage = "load" /\ ret'.err # "")
       => trwins' = trwins]_vars

\* C2: a group that add_measurements_from_sac loaded in relative_time mode
\* without an error has no window that ends before 0
C2_CalibratedWindowsEndAfterZero ==
  (/\ call.op = "add_measurements_from_sac"
   /\ lower(call.window_time_mode) = RelativeTime
   /\ ret.err = "")
  => \A i \in 1..Len(trwins) : \A w \in 1..Len(trwins[i].windows) :
       trwins[i].windows[w][2] >= 0

\* C5: an ingestion call whose file_format is neither txt nor json in any
\* case raises, opens no file, and leaves trwins and _load_info as they were
C5_BadFormatRejectedBeforeOpen ==
  [][(call'.op \in IngestOps /\ lower(call'.file_format) \notin FormatOptions)
       => /\ ret'.err # ""
          /\ opened' = <<>>
          /\ trwins' = trwins
          /\ load_info' = load_info]_vars

\* a call with the format "sac" was rejected on a container that holds groups
C5_Witness ==
  /\ call.op \in IngestOps
  /\ lower(call.file_format) \notin FormatOptions
  /\ ret.err = "ValueError" /\ ret.stage = "winfile"
  /\ Len(trwins) > 0
  /\ opened = <<>>

\* the windows of the container, each named by its group and its place
AllWindows(trwins_) ==
  UNION { {i} \X (1..Len(trwins_[i].windows)) : i \in 1..Len(trwins_) }

\* C6: every ingestion call keeps the groups it found as a prefix of trwins
\* and appends the groups of the parser behind them in the order of the
\* parser; len(container) is the number of groups and container.nwindows
\* the number of their windows
C6_GroupsOnlyAppended ==
  [][call'.op \in IngestOps
       => /\ Len(trwins') = Len(trwins) + Len(ret'.parsed)
          /\ SubSeq(trwins', 1, Len(trwins)) = trwins
          /\ \A j \in 1..Len(ret'.parsed) :
               /\ trwins'[Len(trwins) + j].path_dict = ret'.parsed[j].path_dict
               /\ nwindows(trwins'[Len(trwins) + j]) = nwindows(ret'.parsed[j])
          /\ __len__(Self') = Len(trwins')
          /\ container_nwindows(Self') = Cardinality(AllWindows(trwins'))]_vars

\* a call appended one group behind a group of an earlier call and loaded it
C6_Witness ==
  /\ call.op \in IngestOps
  /\ ret.err = ""
  /\ Len(ret.parsed) = 1
  /\ Len(trwins) = 2
  /\ trwins[1].path_dict # trwins[2].path_dict
  /\ container_nwindows(Self) = 3

\* the keys that check_and_load_asdf_file asks of the dict
NecessaryKeys == {"obsd", "synt"} \cup SeqRange(par_list)

\* C7: add_measurements_from_asdf with a dict that lacks the key obsd, synt
\* or a parameter of par_list raises and has opened no archive
C7_MissingKeyRaisesBeforeOpen ==
  (/\ call.op = "add_measurements_from_asdf"
   /\ call.asdf_file_dict # None
   /\ \E k \in NecessaryKeys : k \notin DOMAIN call.asdf_file_dict[1])
  => /\ ret.err # ""
     /\ \A i \in 1..Len(opened) : opened[i] \notin ArchiveNames

\* the dict lacks a parameter of par_list only, the window file was read,
\* and the call raised in check_and_load_asdf_file
C7_Witness ==
  /\ call.op = "add_measurements_from_asdf"
  /\ call.asdf_file_dict # None
  /\ {"obsd", "synt"} \subseteq DOMAIN call.asdf_file_dict[1]
  /\ \E k \in SeqRange(par_list) : k \notin DOMAIN call.asdf_file_dict[1]
  /\ ret.err = "ValueError" /\ ret.stage = "asdf_file"
  /\ opened = <<"win.txt">>

\* C10: every group of the container has both its latitude and its
\* longitude, or neither
C10_CoordinatesBothOrNeither ==
  \A i \in 1..Len(trwins) :
    (trwins[i].latitude = None) <=> (trwins[i].longitude = None)

\* the roles of a loaded group
Roles == {"obsd", "synt"} \cup SeqRange(par_list)

\* the source that the backend of the last call records
BackendOfCall ==
  IF call.op = "add_measurements_from_sac" THEN "sac" ELSE "asdf"

\* source is the last field that a load assigns
LoadCompleted(g) == g.source # None

\* C11: a group whose load completed has exactly the roles obsd, synt and
\* the parameters of par_list as the keys of its datalist and of its tag,
\* and the backend that loaded it as its source; an ingestion that raised
\* nothing completed the load of each of its groups
C11_LoadedGroupHasEveryRole ==
  /\ \A i \in 1..Len(trwins) :
       LoadCompleted(trwins[i])
       => /\ DOMAIN trwins[i].datalist = Roles
          /\ trwins[i].tag # None
          /\ DOMAIN trwins[i].tag[1] = Roles
          /\ trwins[i].source = Some(BackendOfCall)
  /\ (call.op \in IngestOps /\ ret.err = "")
       => \A i \in 1..Len(trwins) : LoadCompleted(trwins[i])

\* a call loaded a group with its two derivatives
C11_Witness ==
  /\ call.op \in IngestOps
  /\ ret.err = ""
  /\ par_list = <<"Mrr", "dep">>
  /\ Len(trwins) >= 1
  /\ \A i \in 1..Len(trwins) :
       /\ trwins[i].source = Some("sac")
       /\ DOMAIN trwins[i].datalist = {"obsd", "synt", "Mrr", "dep"}

\* ------------------------------------------------------------ the export
\* The consumer of the container gives a loaded group its "new_synt" role;
\* write_new_synt_asdf writes the new synthetics of the container.  What a
\* write returns is what it raised and, for each tag, the identifiers of the
\* waveforms that it added to the archive of that tag, in order.

\* the dict that the loop of _sort_new_synt builds: the windows of each
\* tag['synt'], in the order of stations
RECURSIVE SortByTag(_, _, _)
SortByTag(stations, i, new_synt_dict) ==
  IF i > Len(stations) THEN new_synt_dict
  ELSE With(stations[i].tag[1].synt, LAMBDA tag :
         SortByTag(stations, i + 1,
           Put(new_synt_dict, tag,
               IF tag \in DOMAIN new_synt_dict
               THEN Append(new_synt_dict[tag], stations[i])
               ELSE <<stations[i]>>)))

\* DataContainer._sort_new_synt: it reads self.stations, which a
\* DataContainer does not have, and it has no return statement
_sort_new_synt(self) ==
  IF "stations" \notin DOMAIN self
  THEN [err |-> "AttributeError", value |-> None]
  ELSE With(SortByTag(self.stations, 1, <<>>), LAMBDA new_synt_dict :
         [err |-> "", value |-> None])

\* the loop of write_new_synt_asdf over the windows of one tag: the
\* identifiers added, each once
RECURSIVE AddWaveforms(_, _, _)
AddWaveforms(win_array, i, added_list) ==
  IF i > Len(win_array) THEN added_list
  ELSE With(win_array[i].datalist.new_synt.id, LAMBDA synt_id_ :
         IF synt_id_ \in SeqRange(added_list)
         THEN AddWaveforms(win_array, i + 1, added_list)
         ELSE AddWaveforms(win_array, i + 1, Append(added_list, synt_id_)))

\* DataContainer.write_new_synt_asdf
write_new_synt_asdf(self, filename) ==
  With(_sort_new_synt(self), LAMBDA sorted :
    IF sorted.err # "" THEN [err |-> sorted.err, written |-> <<>>]
    \* None.iteritems()
    ELSE IF sorted.value = None
    THEN [err |-> "AttributeError", written |-> <<>>]
    ELSE [err |-> "",
          written |-> [tag \in DOMAIN sorted.value[1] |->
                         AddWaveforms(sorted.value[1][tag], 1, <<>>)]])

\* a call that has none of the arguments of an ingestion
CallOf(op) == [op |-> op, file_format |-> <<>>, window_time_mode |-> <<>>,
               asdf_file_dict |-> None]

\* the consumer sets datalist["new_synt"] of every group of a container
\* whose ingestion loaded each group: the updated synthetic keeps the
\* identifier of the synthetic
AddNewSynt ==
  /\ call.op = "add_measurements_from_sac"
  /\ ret.err = ""
  /\ Len(trwins) >= 1
  /\ trwins' = [i \in 1..Len(trwins) |->
                  [trwins[i] EXCEPT !.datalist =
                     Put(@, "new_synt", [@.synt EXCEPT !.data = 0])]]
  /\ call' = CallOf("new_synt")
  /\ ret' = [err |-> "", stage |-> "done", parsed |-> <<>>]
  /\ opened' = <<>>
  /\ UNCHANGED <<par_list, load_info, asdf_file_dict>>

\* container.write_new_synt_asdf("new_synt.h5")
WriteNewSyntAsdf ==
  /\ call.op # "write_new_synt_asdf"
  /\ \E r \in { write_new_synt_asdf(Self, "new_synt.h5") } :
       /\ ret' = [err |-> r.err, stage |-> "export", parsed |-> <<>>,
                  written |-> r.written]
       /\ call' = CallOf("write_new_synt_asdf")
       /\ opened' = <<>>
  /\ UNCHANGED <<par_list, trwins, load_info, asdf_file_dict>>

NextExport == FirstAddMeasurementsFromSac \/ AddNewSynt \/ WriteNewSyntAsdf

SpecExport == Init /\ [][NextExport]_vars

\* the identifiers of the new synthetics of the groups whose synthetic has
\* the tag
NewSyntIds(tag) ==
  { trwins[i].datalist.new_synt.id :
      i \in { j \in 1..Len(trwins) : trwins[j].tag[1].synt = tag } }

\* C12: write_new_synt_asdf on a container whose groups all carry new_synt
\* raises nothing and, for the tag of each synthetic, adds each identifier
\* of a new synthetic of that tag once
C12_EachNewSyntWrittenOnce ==
  (/\ call.op = "write_new_synt_asdf"
   /\ Len(trwins) >= 1
   /\ \A i \in 1..Len(trwins) : "new_synt" \in DOMAIN trwins[i].datalist)
  => /\ ret.err = ""
     /\ DOMAIN ret.written = { trwins[i].tag[1].synt : i \in 1..Len(trwins) }
     /\ \A tag \in DOMAIN ret.written :
          /\ SeqRange(ret.written[tag]) = NewSyntIds(tag)
          /\ Len(ret.written[tag]) = Cardinality(NewSyntIds(tag))

\* ------------------------------------------------- the json window files

MaxChannels == 2   \* most channel entries of a station
MaxRecords == 2    \* most window records of a channel entry

\* window records: 1.0 to 2.5 without a weight, 0.5 to 1.0 with the weight
\* 1.5, and one without its end time
JsonRecords ==
  { [channel_id |-> <<"x">>, channel_id_2 |-> <<"y">>,
     relative_starttime |-> 2, relative_endtime |-> 5],
    [channel_id |-> <<"x">>, channel_id_2 |-> <<"y">>,
     relative_starttime |-> 1, relative_endtime |-> 2, initial_weighting |-> 3],
    [channel_id |-> <<"x">>, channel_id_2 |-> <<"y">>,
     relative_starttime |-> 1] }

JsonChannels == UNION { [1..n -> JsonRecords] : n \in 0..MaxRecords }
JsonStations == UNION { [1..n -> JsonChannels] : n \in 0..MaxChannels }

\* the content of a json window file: no station, one station, or the same
\* station under two names
JsonContents == {<<>>} \cup { <<st>> : st \in JsonStations }
                \cup { <<st, st>> : st \in JsonStations }

InitJson ==
  /\ Constructed(NoParams)
  /\ \E content \in JsonContents : \E w \in InitialWeights :
       call = [op |-> "load_winfile_json", content |-> content,
               initial_weight |-> w]
  /\ ret = Pending

\* the static method DataContainer.load_winfile_json called on the file
CallLoadWinfileJson ==
  /\ ret = Pending
  /\ ret' = load_winfile_json(call.content, call.initial_weight)
  /\ opened' = <<"win.json">>
  /\ UNCHANGED <<par_list, trwins, load_info, asdf_file_dict, call>>

NextJson == CallLoadWinfileJson

SpecJson == InitJson /\ [][NextJson]_vars

\* every channel entry has a record, and every record its identifiers and
\* its two times
ValidJson(content) ==
  \A c \in SeqRange(Flatten(content)) :
    /\ c # <<>>
    /\ \A r \in SeqRange(c) :
         {"channel_id", "channel_id_2", "relative_starttime",
          "relative_endtime"} \subseteq DOMAIN r

\* C13: load_winfile_json on a valid json window file returns one group for
\* each channel entry, in order; the group has the start and end time of
\* each record of the entry, in order, and as weights the initial_weighting
\* of the record, or initial_weight where the record has none
C13_JsonParsesAsDeclared ==
  (ret # Pending /\ call.op = "load_winfile_json" /\ ValidJson(call.content))
  => /\ ret.err = ""
     /\ Len(ret.trwins) = Len(Flatten(call.content))
     /\ \A i \in 1..Len(ret.trwins) :
          LET c == Flatten(call.content)[i] IN
          /\ ret.trwins[i].windows =
               [k \in 1..Len(c) |->
                  <<c[k].relative_starttime, c[k].relative_endtime>>]
          /\ ret.trwins[i].init_weight =
               [k \in 1..Len(c) |->
                  IF "initial_weighting" \in DOMAIN c[k]
                  THEN c[k].initial_weighting ELSE call.initial_weight]

\* --------------------------------------- claims on the asdf ingestion

ZeroWindowGroup(g) ==
  /\ g.windows = <<>>
  /\ g.path_dict.obsd \in DOMAIN SacFS
  /\ g.path_dict.synt \in DOMAIN SacFS
  /\ {"stlo", "stla"} \subseteq DOMAIN SacFS[g.path_dict.synt].sac
  /\ \A p \in SeqRange(par_list) :
       Append(g.path_dict.synt, <<"ext", p>>) \in DOMAIN SacFS

\* C16: add_measurements_from_sac in relative_time mode on a txt window file
\* whose groups all declare 0 windows (their sac files exist) raises nothing,
\* and each group is in trwins with no window and a datalist of every role
C16_ZeroWindowGroupIngested ==
  (/\ call.op = "add_measurements_from_sac"
   /\ lower(call.window_time_mode) = RelativeTime
   /\ ret.stage \in {"load", "done"}
   /\ Len(ret.parsed) >= 1
   /\ \A j \in 1..Len(ret.parsed) : ZeroWindowGroup(ret.parsed[j]))
  => /\ ret.err = ""
     /\ Len(trwins) = Len(ret.parsed)
     /\ \A i \in 1..Len(trwins) :
          /\ trwins[i].windows = <<>>
          /\ DOMAIN trwins[i].datalist = Roles

\* the windows of a parsed group moved back by the b header of the sac file
\* at its observed path
ShiftedByOwnB(g) ==
  [w \in 1..Len(g.windows) |->
     <<g.windows[w][1] - SacFS[g.path_dict.obsd].sac.b,
       g.windows[w][2] - SacFS[g.path_dict.obsd].sac.b>>]

\* C15: an add_measurements_from_sac call leaves the groups the container
\* had as they were; one that raises nothing appends the groups of the file,
\* each with its parsed windows moved back once by the b of its own observed
\* trace in relative_time mode, and with its parsed windows in obsolute_time
\* mode
C15_WindowsShiftedOnceByOwnB ==
  [][(call'.op = "add_measurements_from_sac")
       => /\ Len(trwins') >= Len(trwins)
          /\ SubSeq(trwins', 1, Len(trwins)) = trwins
          /\ (ret'.err = "")
               => /\ Len(trwins') = Len(trwins) + Len(ret'.parsed)
                  /\ \A j \in 1..Len(ret'.parsed) :
                       trwins'[Len(trwins) + j].windows =
                         IF lower(call'.window_time_mode) = RelativeTime
                         THEN ShiftedByOwnB(ret'.parsed[j])
                         ELSE ret'.parsed[j].windows]_vars

\* a relative_time call that raised nothing added, after a group of an
\* obsolute_time call whose observed trace starts at 2.0, a group whose
\* windows differ from the parsed ones
C15_Witness ==
  /\ call.op = "add_measurements_from_sac"
  /\ ret.err = ""
  /\ lower(call.window_time_mode) = RelativeTime
  /\ Len(ret.parsed) = 1
  /\ Len(trwins) = 2
  /\ trwins[1].source = Some("sac")
  /\ trwins[1].datalist.obsd.sac.b = 4
  /\ trwins[1].windows = << <<2, 5>> >>
  /\ trwins[2].windows # ret.parsed[1].windows
  /\ trwins[2].windows = << <<-2, 1>> >>

====
